---- MODULE Spec2Model ----
(***************************************************************************)
(* Model of the search helper of fivex_eQTL (src/src/lz-helpers.js):       *)
(* parseSearchText classifies a query with three regular expressions and   *)
(* resolves it, where needed, through getOmniSearch and getBestVar;        *)
(* parseSearch consumes the result and navigates or alerts.                *)
(* PheGET.getURL / annotateData and category_scatter._prepareData of the   *)
(* same file are modelled in parts of their own, each with its variables   *)
(* and its specification.                                                  *)
(*                                                                         *)
(* A JavaScript string is a sequence of one-character strings.  Other      *)
(* JavaScript values are tagged records (Undefined, Null, NaN, Num, Str,   *)
(* Obj).                                                                   *)
(***************************************************************************)
EXTENDS Integers, Sequences, FiniteSets, TLC

\* Longest run of digits generated for the numeric parts of an input.
MaxDigits == 2
MaxRecords == 3
MaxTss == 1
MaxValue == 1
MaxPoints == 3
MaxOrder == 2

(***************************************************************************)
(* JavaScript values                                                       *)
(***************************************************************************)
Undefined == [k |-> "undefined"]
Null == [k |-> "null"]
NaN == [k |-> "NaN"]
Num(n) == [k |-> "num", n |-> n]
Str(s) == [k |-> "str", s |-> s]

IsStr(v) == v.k = "str"

\* obj.field of a parsed JSON record: a missing field reads as undefined
Get(obj, field) == IF field \in DOMAIN obj THEN obj[field] ELSE Undefined

(***************************************************************************)
(* Characters and regular-expression pieces                                *)
(***************************************************************************)
Digit == {"0", "1", "2", "3", "4", "5", "6", "7", "8", "9"}
NonZero == Digit \ {"0"}

DigitVal(c) ==
  CASE c = "0" -> 0 [] c = "1" -> 1 [] c = "2" -> 2 [] c = "3" -> 3
    [] c = "4" -> 4 [] c = "5" -> 5 [] c = "6" -> 6 [] c = "7" -> 7
    [] c = "8" -> 8 [] c = "9" -> 9

\* s[i], or "" (no character) when i is outside the string
At(s, i) == IF i >= 1 /\ i <= Len(s) THEN s[i] ELSE ""

RECURSIVE DigitRun(_, _)
\* [0-9]* taken greedily from position i: the number of digits consumed
DigitRun(s, i) == IF At(s, i) \in Digit THEN 1 + DigitRun(s, i + 1) ELSE 0

\* [1-9][0-9]+ taken greedily from position i: the length matched, 0 when it
\* does not match.  In the three patterns the piece is followed by the end of
\* the pattern or by "-", so giving back digits never turns a failure into a
\* match and only the greedy length matters.
NumLen(s, i) ==
  IF At(s, i) \in NonZero /\ At(s, i + 1) \in Digit
  THEN 1 + DigitRun(s, i + 1)
  ELSE 0

\* (chr)? at position i: the lengths the group can take, in the order the
\* matcher tries them
ChrOpts(s, i) ==
  IF At(s, i) = "c" /\ At(s, i + 1) = "h" /\ At(s, i + 2) = "r"
  THEN <<3, 0>>
  ELSE <<0>>

\* Mutant: the chromosome alternative restricted to 1..22
ChromOpts22(s, j) ==
  IF At(s, j) \in NonZero
  THEN IF At(s, j + 1) \in Digit
            /\ 10 * DigitVal(At(s, j)) + DigitVal(At(s, j + 1)) <= 22
       THEN <<2, 1>>
       ELSE <<1>>
  ELSE IF At(s, j) \in {"X", "Y"} THEN <<1>>
  ELSE IF At(s, j) = "M" /\ At(s, j + 1) = "T" THEN <<2>>
  ELSE <<>>

\* ([1-9][0-9]?|X|Y|MT) at position j: the lengths the group can take, in the
\* order the matcher tries them
ChromOpts(s, j) ==
  IF At(s, j) \in NonZero
  THEN IF At(s, j + 1) \in Digit THEN <<2, 1>> ELSE <<1>>
  ELSE IF At(s, j) \in {"X", "Y"} THEN <<1>>
  ELSE IF At(s, j) = "M" /\ At(s, j + 1) = "T" THEN <<2>>
  ELSE <<>>

NoMatch == [found |-> FALSE]

\* One attempt of chromposPattern (ranged = FALSE) or rangePattern (ranged =
\* TRUE) at position i with (chr)? of length c and the chromosome of length m
Attempt(s, i, c, m, ranged) ==
  LET j == i + c
      k == j + m
      n1 == NumLen(s, k + 1)
      d == k + 1 + n1
      n2 == NumLen(s, d + 1)
      last == IF ranged THEN d + n2 ELSE d - 1
  IN IF At(s, k) = ":" /\ n1 > 0 /\ (ranged => (At(s, d) = "-" /\ n2 > 0))
     THEN [found |-> TRUE,
           m0 |-> SubSeq(s, i, last),
           m2 |-> SubSeq(s, j, k - 1),
           m3 |-> SubSeq(s, k + 1, d - 1),
           m4 |-> IF ranged THEN SubSeq(s, d + 1, last) ELSE <<>>]
     ELSE NoMatch

\* The attempts at position i in the matcher's order: (chr)? first with "chr",
\* then without; for each, the chromosome alternatives in order
AttemptsAt(s, i, ranged) ==
  LET cs == ChrOpts(s, i)
      Row(c) == LET ms == ChromOpts(s, i + c)
                IN [x \in 1..Len(ms) |-> Attempt(s, i, c, ms[x], ranged)]
      RECURSIVE Cat(_)
      Cat(x) == IF x > Len(cs) THEN <<>> ELSE Row(cs[x]) \o Cat(x + 1)
  IN Cat(1)

\* The first attempt of a sequence that matched
FirstFound(as) ==
  IF \E x \in 1..Len(as) : as[x].found
  THEN as[CHOOSE x \in 1..Len(as) :
            as[x].found /\ \A y \in 1..(x - 1) : ~as[y].found]
  ELSE NoMatch

\* searchText.match(pattern) without the g flag: the match at the leftmost
\* position where the pattern matches at all
LeftmostOf(s, ranged) ==
  LET hits == {i \in 1..Len(s) : FirstFound(AttemptsAt(s, i, ranged)).found}
  IN IF hits = {} THEN NoMatch
     ELSE FirstFound(AttemptsAt(s, CHOOSE i \in hits : \A h \in hits : i <= h, ranged))

\* const chromposPattern = /(chr)?([1-9][0-9]?|X|Y|MT):([1-9][0-9]+)/
chromposPattern(s) == LeftmostOf(s, FALSE)

\* const rangePattern = /(chr)?([1-9][0-9]?|X|Y|MT):([1-9][0-9]+)-([1-9][0-9]+)/
rangePattern(s) == LeftmostOf(s, TRUE)

\* const rsPattern = /(rs[1-9][0-9]+)/
rsPattern(s) ==
  LET Hit(i) == At(s, i) = "r" /\ At(s, i + 1) = "s" /\ NumLen(s, i + 2) > 0
      hits == {i \in 1..Len(s) : Hit(i)}
  IN IF hits = {} THEN NoMatch
     ELSE LET i == CHOOSE h \in hits : \A g \in hits : h <= g
          IN [found |-> TRUE, m0 |-> SubSeq(s, i, i + 1 + NumLen(s, i + 2))]

RECURSIVE DigitsValue(_)
\* the value of a sequence of digits
DigitsValue(ds) ==
  IF ds = <<>> THEN 0
  ELSE 10 * DigitsValue(SubSeq(ds, 1, Len(ds) - 1)) + DigitVal(ds[Len(ds)])

\* parseInt of a string (no radix): the value of the longest prefix of digits,
\* NaN when the string does not start with a digit
parseInt(s) ==
  LET n == DigitRun(s, 1)
  IN IF n = 0 THEN NaN ELSE Num(DigitsValue(SubSeq(s, 1, n)))

RECURSIVE ToDigits(_)
\* the decimal digits of a natural number
ToDigits(n) ==
  IF n < 10 THEN <<CHOOSE c \in Digit : DigitVal(c) = n>>
  ELSE Append(ToDigits(n \div 10), CHOOSE c \in Digit : DigitVal(c) = n % 10)

\* `${v}` in a template literal, and 'text' + v: the string of a value
TemplateString(v) ==
  CASE v.k = "str" -> v.s
    [] v.k = "num" -> ToDigits(v.n)
    [] v.k = "undefined" -> <<"u", "n", "d", "e", "f", "i", "n", "e", "d">>
    [] v.k = "null" -> <<"n", "u", "l", "l">>
    [] v.k = "NaN" -> <<"N", "a", "N">>

\* Mutant: the prefix is left in place
replaceChrNone(s) == s

\* s.replace('chr', ''): the first occurrence of "chr" removed, wherever it is
replaceChr(s) ==
  LET hits == {i \in 1..Len(s) :
                 At(s, i) = "c" /\ At(s, i + 1) = "h" /\ At(s, i + 2) = "r"}
  IN IF hits = {} THEN s
     ELSE LET i == CHOOSE h \in hits : \A g \in hits : h <= g
          IN SubSeq(s, 1, i - 1) \o SubSeq(s, i + 3, Len(s))

(***************************************************************************)
(* Promises: a settled promise is fulfilled with a value or rejected with  *)
(* an error; logs are the console.log lines written while it settled.      *)
(***************************************************************************)
Fulfilled(v) == [ok |-> TRUE, v |-> v]
Rejected(e) == [ok |-> FALSE, v |-> e]

ErrFetch == "TypeError: Failed to fetch"
ErrStatus == "Error: statusText"
ErrJson == "SyntaxError"
ErrType == "TypeError"

\* promise.then(handler), r being what the handler makes of p.v: the handler
\* runs on a fulfilled promise only; a rejection passes through
Then(p, r) ==
  IF p.ok THEN [ok |-> r.ok, v |-> r.v, logs |-> p.logs] ELSE p

\* promise.catch(handler) for the handlers of this file, which log one line
\* (line, made of p.v) and return undefined: the handler runs on a rejected
\* promise only
Catch(p, line) ==
  IF p.ok THEN p
  ELSE [ok |-> TRUE, v |-> Undefined, logs |-> Append(p.logs, line)]

(***************************************************************************)
(* HTTP responses                                                          *)
(***************************************************************************)
NetError == [k |-> "neterror"]
BadJson == [k |-> "badjson"]
Json(v) == [k |-> "json", v |-> v]
Http(ok, body) == [k |-> "http", ok |-> ok, body |-> body]
EmptyObj == [k |-> "obj"]

\* fetch(url), given what the network answers: rejected on a network error
fetch(resp) ==
  IF resp = NetError
  THEN [ok |-> FALSE, v |-> ErrFetch, logs |-> <<>>]
  ELSE [ok |-> TRUE, v |-> resp, logs |-> <<>>]

\* function failureCallback(error): the line it logs
failureCallback(error) == [text |-> "Error status: ", error |-> error]

\* function handleErrors(response)
handleErrors(response) ==
  IF ~response.ok THEN Rejected(ErrStatus) ELSE Fulfilled(response)

\* response.json()
json(response) ==
  IF response.body = BadJson THEN Rejected(ErrJson) ELSE Fulfilled(response.body.v)

\* (myJson) => myJson.data[0]
FirstOfData(myJson) ==
  IF "data" \notin DOMAIN myJson THEN Rejected(ErrType)
  ELSE IF Len(myJson.data) = 0 THEN Fulfilled(Undefined)
  ELSE Fulfilled(myJson.data[1])

\* the catch handler of getOmniSearch: the line it logs
OmniCatch(error) == [text |-> "Omnisearch error, status code: ", error |-> error]

\* function getOmniSearch(searchText), once the network has answered
getOmniSearch(resp) ==
  LET p0 == fetch(resp)
      p1 == Then(p0, handleErrors(p0.v))
      p2 == Then(p1, json(p1.v))
      p3 == Then(p2, FirstOfData(p2.v))
  IN Catch(p3, OmniCatch(p3.v))

\* (resp) => resp.data
DataOf(resp) == Fulfilled(Get(resp, "data"))

\* function getBestVar(symbol), once the network has answered
getBestVar(resp) ==
  LET p0 == fetch(resp)
      p1 == Then(p0, handleErrors(p0.v))
      p2 == Then(p1, json(p1.v))
      p3 == Then(p2, DataOf(p2.v))
  IN Catch(p3, failureCallback(p3.v))

(***************************************************************************)
(* Queries and network answers the model draws from                        *)
(***************************************************************************)
GenDigits == {"0", "1"}

\* the digit strings of at most MaxDigits digits, the empty one included
DigitStrings == UNION {[1..n -> GenDigits] : n \in 0..MaxDigits}

ChromTokens ==
  {<<"1">>, <<"2", "3">>, <<"1", "0", "0">>, <<"X">>, <<"Y">>, <<"M", "T">>, <<"Z">>}

\* text before and after the pattern-shaped part
Affixes == {<< <<>>, <<>> >>, << <<"a">>, <<>> >>, << <<>>, <<"a">> >>}

ChrPrefixes == {<<>>, <<"c", "h", "r">>}

Tails == {<<>>} \cup {<<"-">> \o n : n \in DigitStrings}

PositionLike ==
  {a[1] \o c \o t \o <<":">> \o n \o tail \o a[2] :
     a \in Affixes, c \in ChrPrefixes, t \in ChromTokens,
     n \in DigitStrings, tail \in Tails}

RsLike == {a[1] \o <<"r", "s">> \o n \o a[2] : a \in Affixes, n \in DigitStrings}

GeneLike == {<<"A", "P", "O", "E">>, <<"z", "z", "z">>}

Inputs == PositionLike \cup RsLike \cup GeneLike

chr19 == <<"c", "h", "r", "1", "9">>
ENSG == <<"E", "N", "S", "G", "1">>

\* data[0] of an omnisearch answer: no field at all, a variant, the answer
\* for a term that is not found, a gene
OmniRecords ==
  {EmptyObj,
   [k |-> "obj", chrom |-> Str(chr19), start |-> Num(44), end |-> Num(44)],
   [k |-> "obj", chrom |-> Null, start |-> Null, end |-> Null],
   [k |-> "obj", gene_id |-> Str(ENSG), chrom |-> Str(<<"1", "9">>),
    start |-> Num(40), end |-> Num(50)]}

OmniResponses ==
  {NetError, Http(FALSE, BadJson), Http(TRUE, BadJson), Http(TRUE, Json(EmptyObj)),
   Http(TRUE, Json([k |-> "obj", data |-> <<>>]))}
    \cup {Http(TRUE, Json([k |-> "obj", data |-> <<r>>])) : r \in OmniRecords}

\* data of a best-variant answer
BestVarRecords ==
  {[k |-> "obj", pos |-> Str(<<"0", "4", "4">>), chrom |-> Str(chr19)],
   [k |-> "obj", pos |-> Num(7), chrom |-> Str(<<"X">>)],
   [k |-> "obj", chrom |-> Str(chr19)],
   [k |-> "obj", pos |-> Str(<<"1", "2">>)]}

BestVarResponses ==
  {NetError, Http(FALSE, BadJson), Http(TRUE, BadJson), Http(TRUE, Json(EmptyObj))}
    \cup {Http(TRUE, Json([k |-> "obj", data |-> r])) : r \in BestVarRecords}

(***************************************************************************)
(* State                                                                   *)
(***************************************************************************)
VARIABLES
  searchText,  \* the query given to parseSearch
  pc,          \* "start", "omni", "bestvar", "resolved", "done"
  branch,      \* the branch parseSearchText took: "variant", "range", "rs", "gene"
  calls,       \* the fetch calls issued, in order
  logs,        \* the console.log lines written, in order
  result,      \* the promise parseSearchText returned
  gene_id,     \* gene_id as the second handler of the gene branch holds it
  omniResp,    \* the answer the omnisearch call got
  bestResp,    \* the answer the best-variant call got
  location,    \* the values assigned to window.location, in order
  alerts       \* the number of alert boxes shown

vars ==
  <<searchText, pc, branch, calls, logs, result, gene_id, omniResp, bestResp,
    location, alerts>>

\* two invocations of parseSearchText in flight (the second specification)
VARIABLES
  cText,      \* cText[q]: the text invocation q was called with
  cPc,        \* cPc[q]: "start", "omni", "bestvar", "resolved"
  cFrames,    \* cFrames[f]: the local variables held in frame f
  cCalls,     \* the fetch calls issued, in order, each with its invocation
  cLogs,      \* the console.log lines written, in order
  cResult,    \* cResult[q]: the promise invocation q returned
  cOmniResp,  \* cOmniResp[q]: the answer to the omnisearch call of q
  cBestResp   \* cBestResp[q]: the answer to the best-variant call of q

concVars ==
  <<cText, cPc, cFrames, cCalls, cLogs, cResult, cOmniResp, cBestResp>>

\* PheGET.getURL and PheGET.annotateData (the third specification)
VARIABLES
  aPc,       \* "start", "fetched", "done"
  state,     \* the plot state getURL reads
  header,    \* chain.header
  records,   \* the records annotateData is given
  annotated  \* what annotateData returned or threw

annotVars == <<aPc, state, header, records, annotated>>

\* category_scatter._prepareData (the fourth specification)
VARIABLES
  pPc,       \* "start", "done"
  layout,    \* this.layout.x_axis
  data,      \* this.data
  prepared   \* what _prepareData returned or threw

prepVars == <<pPc, layout, data, prepared>>

\* the variables of a part of the model that is not running
SearchOff ==
  /\ searchText = <<>>
  /\ pc = "off"
  /\ branch = "none"
  /\ calls = <<>>
  /\ logs = <<>>
  /\ result = <<>>
  /\ gene_id = <<>>
  /\ omniResp = <<>>
  /\ bestResp = <<>>
  /\ location = <<>>
  /\ alerts = 0

ConcOff ==
  /\ cText = <<>>
  /\ cPc = <<>>
  /\ cFrames = <<>>
  /\ cCalls = <<>>
  /\ cLogs = <<>>
  /\ cResult = <<>>
  /\ cOmniResp = <<>>
  /\ cBestResp = <<>>

AnnotOff ==
  /\ aPc = "off"
  /\ state = <<>>
  /\ header = <<>>
  /\ records = <<>>
  /\ annotated = <<>>

PrepOff ==
  /\ pPc = "off"
  /\ layout = <<>>
  /\ data = <<>>
  /\ prepared = <<>>

allVars == <<vars, concVars, annotVars, prepVars>>

\* what a step of one part leaves alone: the variables of the other parts
notSearch == <<concVars, annotVars, prepVars>>
notConc == <<vars, annotVars, prepVars>>
notAnnot == <<vars, concVars, prepVars>>
notPrep == <<vars, concVars, annotVars>>

Pending == [state |-> "pending"]
NoResp == [k |-> "none"]

\* the state of a promise that settled as p
Settled(p) ==
  [state |-> IF p.ok THEN "fulfilled" ELSE "rejected", v |-> p.v]

Init ==
  /\ searchText \in Inputs
  /\ pc = "start"
  /\ branch = "none"
  /\ calls = <<>>
  /\ logs = <<>>
  /\ result = Pending
  /\ gene_id = Undefined
  /\ omniResp = NoResp
  /\ bestResp = NoResp
  /\ location = <<>>
  /\ alerts = 0
  /\ ConcOff
  /\ AnnotOff
  /\ PrepOff

(***************************************************************************)
(* parseSearchText                                                         *)
(***************************************************************************)
Variant(chrom, start, end) ==
  [k |-> "obj", type |-> "variant", chrom |-> chrom, start |-> start, end |-> end]

Range(chrom, start, end) ==
  [k |-> "obj", type |-> "range", chrom |-> chrom, start |-> start, end |-> end]

\* Mutant: any match counts, the comparison with the whole text is dropped
FullMatchAny(s, m) == m.found

\* cMatch !== null && searchText === cMatch[0]
FullMatch(s, m) == m.found /\ s = m.m0

\* the if / else if chain of parseSearchText
BranchOf(s) ==
  IF FullMatch(s, chromposPattern(s)) THEN "variant"
  ELSE IF FullMatch(s, rangePattern(s)) THEN "range"
  ELSE IF FullMatch(s, rsPattern(s)) THEN "rs"
  ELSE "gene"

\* Mutant: the chromosome is taken with its "chr" prefix (match group 0 up to ":")
VariantOfWithChr(s) ==
  LET cMatch == chromposPattern(s)
      pos == parseInt(cMatch.m3)
  IN Variant(Str(SubSeq(cMatch.m0, 1, Len(cMatch.m0) - Len(cMatch.m3) - 1)), pos, pos)

\* returnJson of the chrom:pos branch
VariantOf(s) ==
  LET cMatch == chromposPattern(s)
      pos == parseInt(cMatch.m3)
  IN Variant(Str(cMatch.m2), pos, pos)

\* Mutant: start and end are put in ascending order
RangeOfSorted(s) ==
  LET cMatchRange == rangePattern(s)
      a == parseInt(cMatchRange.m3)
      b == parseInt(cMatchRange.m4)
  IN Range(Str(cMatchRange.m2), IF a.n <= b.n THEN a ELSE b, IF a.n <= b.n THEN b ELSE a)

\* returnJson of the chrom:start-end branch
RangeOf(s) ==
  LET cMatchRange == rangePattern(s)
  IN Range(Str(cMatchRange.m2), parseInt(cMatchRange.m3), parseInt(cMatchRange.m4))

OmniCall(q) == [api |-> "omnisearch", q |-> q]
BestVarCall(symbol) == [api |-> "bestvar", symbol |-> TemplateString(symbol)]

\* parseSearch(searchText) calls parseSearchText(searchText): the text is
\* classified; the two direct branches return a resolved promise, the other
\* two call getOmniSearch, which issues its fetch
ParseSearchText ==
  /\ pc = "start"
  /\ branch' = BranchOf(searchText)
  /\ IF branch' = "variant"
     THEN /\ result' = Settled(Fulfilled(VariantOf(searchText)))
          /\ pc' = "resolved"
          /\ calls' = calls
     ELSE IF branch' = "range"
     THEN /\ result' = Settled(Fulfilled(RangeOf(searchText)))
          /\ pc' = "resolved"
          /\ calls' = calls
     ELSE /\ result' = Pending
          /\ pc' = "omni"
          /\ calls' = Append(calls, OmniCall(searchText))
  /\ UNCHANGED <<searchText, logs, gene_id, omniResp, bestResp, location, alerts>>
  /\ UNCHANGED notSearch

\* Mutant: the response chrom is stripped of "chr" in the rs branch as well
RsThenStripped(r) ==
  IF r \in {Undefined, Null} THEN Rejected(ErrType)
  ELSE Fulfilled(Variant(IF IsStr(Get(r, "chrom")) THEN Str(replaceChr(r.chrom.s))
                         ELSE Get(r, "chrom"),
                         Get(r, "start"), Get(r, "end")))

\* the then handler of the rs branch
RsThen(r) ==
  IF r \in {Undefined, Null} THEN Rejected(ErrType)
  ELSE Fulfilled(Variant(Get(r, "chrom"), Get(r, "start"), Get(r, "end")))

\* the first then handler of the gene branch: both arms return result.gene_id
GeneIdThen(r) ==
  IF r \in {Undefined, Null} THEN Rejected(ErrType)
  ELSE Fulfilled(Get(r, "gene_id"))

\* getOmniSearch(searchText).then(...).catch(failureCallback) of the rs branch
RsChain(resp) ==
  LET p0 == getOmniSearch(resp)
      p1 == Then(p0, RsThen(p0.v))
  IN Catch(p1, failureCallback(p1.v))

\* Mutant: a timeout gives up on the omnisearch lookup before it is answered
OmniSettleTimeout ==
  /\ pc = "omni"
  /\ result' = Settled(Fulfilled(Undefined))
  /\ pc' = "resolved"
  /\ UNCHANGED <<searchText, branch, calls, logs, gene_id, omniResp, bestResp,
                 location, alerts>>
  /\ UNCHANGED notSearch

\* The omnisearch fetch settles.  rs branch: the chain runs to its end.  gene
\* branch: the first handler runs; if it did not throw, the second handler
\* runs and calls getBestVar(gene_id), which issues its fetch.
OmniSettle ==
  /\ pc = "omni"
  /\ \E resp \in OmniResponses :
       /\ omniResp' = resp
       /\ IF branch = "rs"
          THEN LET p == RsChain(resp)
               IN /\ logs' = logs \o p.logs
                  /\ result' = Settled(p)
                  /\ pc' = "resolved"
                  /\ UNCHANGED <<calls, gene_id>>
          ELSE LET p0 == getOmniSearch(resp)
                   p1 == Then(p0, GeneIdThen(p0.v))
               IN IF p1.ok
                  THEN /\ logs' = logs \o p1.logs
                       /\ gene_id' = p1.v
                       /\ calls' = Append(calls, BestVarCall(p1.v))
                       /\ pc' = "bestvar"
                       /\ UNCHANGED result
                  ELSE LET p == Catch(p1, failureCallback(p1.v))
                       IN /\ logs' = logs \o p.logs
                          /\ result' = Settled(p)
                          /\ pc' = "resolved"
                          /\ UNCHANGED <<calls, gene_id>>
  /\ UNCHANGED <<searchText, branch, bestResp, location, alerts>>
  /\ UNCHANGED notSearch

\* the then handler on getBestVar(gene_id)
BestVarThen(r) ==
  IF r \in {Undefined, Null} THEN Rejected(ErrType)
  ELSE LET pos == parseInt(TemplateString(Get(r, "pos")))
           chrom == Get(r, "chrom")
       IN IF ~IsStr(chrom) THEN Rejected(ErrType)
          ELSE Fulfilled(Variant(Str(replaceChr(chrom.s)), pos, pos))

\* the catch handler on getBestVar(gene_id): the line it logs
UnableCatch(id) ==
  [text |-> "Unable to the best variant for the gene ", gene |-> TemplateString(id)]

\* getBestVar(gene_id).then(...).catch(...), returned from the second handler
\* of the gene branch, followed by the branch's .catch(failureCallback)
BestVarChain(resp, id) ==
  LET p0 == getBestVar(resp)
      p1 == Then(p0, BestVarThen(p0.v))
      p2 == Catch(p1, UnableCatch(id))
  IN Catch(p2, failureCallback(p2.v))

\* The best-variant fetch settles and the gene branch runs to its end.
BestVarSettle ==
  /\ pc = "bestvar"
  /\ \E resp \in BestVarResponses :
       LET p == BestVarChain(resp, gene_id)
       IN /\ bestResp' = resp
          /\ logs' = logs \o p.logs
          /\ result' = Settled(p)
          /\ pc' = "resolved"
  /\ UNCHANGED <<searchText, branch, calls, gene_id, omniResp, location, alerts>>
  /\ UNCHANGED notSearch

(***************************************************************************)
(* parseSearch                                                             *)
(***************************************************************************)
\* omniresult.type === 'other' && omniresult.chrom === null && ... === null
IsOther(o) ==
  /\ o.k = "obj"
  /\ o.type = "other"
  /\ o.chrom = Null
  /\ o.start = Null
  /\ o.end = Null

\* `/variant/${chrom}_${result.start}`
VariantUrl(chrom, r) ==
  [path |-> "/variant/", chrom |-> chrom, start |-> TemplateString(r.start)]

\* `/region/?chrom=${chrom}&start=${result.start}&end=${result.end}`
RegionUrl(chrom, r) ==
  [path |-> "/region/", chrom |-> chrom, start |-> TemplateString(r.start),
   end |-> TemplateString(r.end)]

\* Mutant: the region view is never opened
NavigationsVariantOnly(r) ==
  LET chrom == replaceChr(r.chrom.s)
  IN IF r.type = "variant" THEN <<VariantUrl(chrom, r)>> ELSE <<>>

\* the second then handler of parseSearch, for a result whose chrom is a
\* string: the assignments to window.location it makes
Navigations(r) ==
  LET chrom == replaceChr(r.chrom.s)
  IN (IF r.type = "variant" THEN <<VariantUrl(chrom, r)>> ELSE <<>>)
       \o (IF r.type = "range" THEN <<RegionUrl(chrom, r)>> ELSE <<>>)

\* The promise of parseSearchText has settled and the handlers parseSearch
\* attached run: the first alerts on undefined (or 'other') and otherwise
\* passes the result on; the second reads result.chrom and navigates; the
\* final catch logs whatever was thrown.
ParseSearchThen ==
  /\ pc = "resolved"
  /\ LET fulfilled == result.state = "fulfilled"
         failed == fulfilled /\ (result.v = Undefined \/ IsOther(result.v))
         r == IF failed THEN Undefined ELSE result.v
         throws == fulfilled /\ (r = Undefined \/ ~IsStr(r.chrom))
     IN /\ alerts' = IF failed THEN alerts + 1 ELSE alerts
        /\ logs' = logs
             \o (IF failed
                 THEN <<failureCallback("Omnisearch undefined or other")>>
                 ELSE <<>>)
             \o (IF ~fulfilled THEN <<failureCallback(result.v)>>
                 ELSE IF throws THEN <<failureCallback(ErrType)>>
                 ELSE <<>>)
        /\ location' = IF fulfilled /\ ~throws
                       THEN location \o Navigations(r)
                       ELSE location
  /\ pc' = "done"
  /\ UNCHANGED <<searchText, branch, calls, result, gene_id, omniResp, bestResp>>
  /\ UNCHANGED notSearch

Next ==
  \/ ParseSearchText
  \/ OmniSettle
  \/ BestVarSettle
  \/ ParseSearchThen

Spec == Init /\ [][Next]_allVars

\* The queries of the specification with fairness: one or two of each branch
LiveInputs ==
  {<<"X", ":", "1", "0">>, <<"c", "h", "r", "1", ":", "1", "0", "-", "1", "1">>,
   <<"r", "s", "1", "0">>, <<"A", "P", "O", "E">>, <<"2", "3", ":", "1">>,
   <<"r", "s", "1">>}

LiveInit ==
  /\ searchText \in LiveInputs
  /\ pc = "start"
  /\ branch = "none"
  /\ calls = <<>>
  /\ logs = <<>>
  /\ result = Pending
  /\ gene_id = Undefined
  /\ omniResp = NoResp
  /\ bestResp = NoResp
  /\ location = <<>>
  /\ alerts = 0
  /\ ConcOff
  /\ AnnotOff
  /\ PrepOff

\* One query through parseSearch, with every issued lookup settling in the
\* end, its handlers run by the event loop.
SpecLive ==
  /\ LiveInit
  /\ [][Next]_allVars
  /\ WF_allVars(OmniSettle)
  /\ WF_allVars(BestVarSettle)

(***************************************************************************)
(* Vocabulary of the properties.  The forms are stated on the text itself, *)
(* without the matcher.                                                    *)
(***************************************************************************)
StartsWithChr(s) == Len(s) >= 3 /\ s[1] = "c" /\ s[2] = "h" /\ s[3] = "r"

\* the text with a leading "chr" taken off
StripChrPrefix(s) == IF StartsWithChr(s) THEN SubSeq(s, 4, Len(s)) ELSE s

\* [1-9][0-9]?|X|Y|MT
IsPatternChrom(t) ==
  \/ Len(t) = 1 /\ t[1] \in NonZero \cup {"X", "Y"}
  \/ Len(t) = 2 /\ t[1] \in NonZero /\ t[2] \in Digit
  \/ t = <<"M", "T">>

\* 1..22, X, Y, MT
IsChrom22(t) ==
  \/ t \in {<<"X">>, <<"Y">>, <<"M", "T">>}
  \/ /\ Len(t) \in {1, 2}
     /\ t[1] \in NonZero
     /\ \A i \in 1..Len(t) : t[i] \in Digit
     /\ DigitsValue(t) \in 1..22

\* [1-9][0-9]+
IsPos(t) ==
  Len(t) >= 2 /\ t[1] \in NonZero /\ \A i \in 1..Len(t) : t[i] \in Digit

HasColon(s) == \E i \in 1..Len(s) : s[i] = ":"
FirstColon(s) == CHOOSE i \in 1..Len(s) : s[i] = ":" /\ \A j \in 1..(i - 1) : s[j] # ":"

\* for a text with a colon: what stands before the first colon, a leading
\* "chr" taken off, and what stands after it
ChromToken(s) == StripChrPrefix(SubSeq(s, 1, FirstColon(s) - 1))
AfterColon(s) == SubSeq(s, FirstColon(s) + 1, Len(s))

HasDash(t) == \E i \in 1..Len(t) : t[i] = "-"
FirstDash(t) == CHOOSE i \in 1..Len(t) : t[i] = "-" /\ \A j \in 1..(i - 1) : t[j] # "-"
BeforeDash(t) == SubSeq(t, 1, FirstDash(t) - 1)
AfterDash(t) == SubSeq(t, FirstDash(t) + 1, Len(t))

\* the whole text is (chr)?CHROM:POS
IsPositionForm(s) ==
  HasColon(s) /\ IsPatternChrom(ChromToken(s)) /\ IsPos(AfterColon(s))

\* the whole text is (chr)?CHROM:START-END
IsRangeForm(s) ==
  /\ HasColon(s)
  /\ IsPatternChrom(ChromToken(s))
  /\ HasDash(AfterColon(s))
  /\ IsPos(BeforeDash(AfterColon(s)))
  /\ IsPos(AfterDash(AfterColon(s)))

\* the whole text is rs followed by [1-9][0-9]+
IsRsForm(s) == Len(s) >= 4 /\ s[1] = "r" /\ s[2] = "s" /\ IsPos(SubSeq(s, 3, Len(s)))

\* a form occurs inside the text without being all of it
ContainsPositionForm(s) ==
  \E i \in 1..Len(s) : \E j \in i..Len(s) :
    <<i, j>> # <<1, Len(s)>> /\ IsPositionForm(SubSeq(s, i, j))

Classified == pc # "start"
Resolved == pc \in {"resolved", "done"}

BestVarCalls == {i \in 1..Len(calls) : calls[i].api = "bestvar"}
OmniCalls == {i \in 1..Len(calls) : calls[i].api = "omnisearch"}

\* the omnisearch answer has a first record
OmniHasRecord(resp) ==
  /\ resp.k = "http"
  /\ resp.ok
  /\ resp.body.k = "json"
  /\ "data" \in DOMAIN resp.body.v
  /\ Len(resp.body.v.data) >= 1
FirstRecord(resp) == resp.body.v.data[1]

\* the best-variant answer has a data record
BestVarHasData(resp) ==
  /\ resp.k = "http"
  /\ resp.ok
  /\ resp.body.k = "json"
  /\ "data" \in DOMAIN resp.body.v
DataRecord(resp) == resp.body.v.data

(***************************************************************************)
(* C1.  Gene branch: when omnisearch answers with a first record that has  *)
(* no gene_id, no best-variant call is ever issued and the query ends      *)
(* unresolved.  Refuted by the code: the second handler calls getBestVar   *)
(* with the undefined gene_id.                                             *)
(***************************************************************************)
C1_NoGeneIdCase ==
  /\ branch = "gene"
  /\ OmniHasRecord(omniResp)
  /\ "gene_id" \notin DOMAIN FirstRecord(omniResp)

C1_NoSecondCallWithoutGeneId ==
  C1_NoGeneIdCase =>
    /\ BestVarCalls = {}
    /\ Resolved => result = [state |-> "fulfilled", v |-> Undefined]

(***************************************************************************)
(* C2.  As claimed: a text whose chromosome token is outside 1..22, X, Y,  *)
(* MT is handled by the gene branch, with an omnisearch call.  Refuted by  *)
(* tokens 23..99.                                                          *)
(***************************************************************************)
C2_Outside22GoesToGene ==
  (Classified /\ HasColon(searchText) /\ ~IsChrom22(ChromToken(searchText))) =>
    /\ branch = "gene"
    /\ Len(calls) >= 1 /\ calls[1] = OmniCall(searchText)

(***************************************************************************)
(* C2, amended.  A text whose chromosome token is outside [1-9][0-9]?, X,  *)
(* Y, MT is handled by the gene branch, with an omnisearch call as the     *)
(* first thing it does; a text (chr)?NN:POS or (chr)?NN:START-END with a   *)
(* two-digit NN above 22 is classified directly as variant or range, with  *)
(* no call.                                                                *)
(***************************************************************************)
C2_OutsidePatternGoesToGene ==
  /\ (Classified /\ HasColon(searchText) /\ ~IsPatternChrom(ChromToken(searchText))) =>
       /\ branch = "gene"
       /\ Len(calls) >= 1 /\ calls[1] = OmniCall(searchText)
  /\ (/\ Classified
      /\ HasColon(searchText)
      /\ IsPatternChrom(ChromToken(searchText))
      /\ ~IsChrom22(ChromToken(searchText))
      /\ (IsPositionForm(searchText) \/ IsRangeForm(searchText))) =>
       /\ branch = IF IsPositionForm(searchText) THEN "variant" ELSE "range"
       /\ calls = <<>>

C2_Witness ==
  /\ searchText = <<"c", "h", "r", "1", "0", "0", ":", "1", "0">>
  /\ branch = "gene"
  /\ calls = <<OmniCall(searchText)>>

(***************************************************************************)
(* C3.  A text that as a whole is (chr)?CHROM:POS resolves at once to a    *)
(* variant whose start and end are the integer POS, and no call is ever    *)
(* issued for it; a text that is not of that form as a whole, in           *)
(* particular one that only contains it, is never classified as a          *)
(* position.                                                               *)
(***************************************************************************)
C3_PositionResolvesDirectly ==
  Classified =>
    /\ IsPositionForm(searchText) =>
         /\ branch = "variant"
         /\ result.state = "fulfilled"
         /\ result.v.type = "variant"
         /\ result.v.start.k = "num"
         /\ ToDigits(result.v.start.n) = AfterColon(searchText)
         /\ result.v.end = result.v.start
         /\ calls = <<>>
    /\ ~IsPositionForm(searchText) => branch # "variant"

C3_Witness ==
  /\ pc = "done"
  /\ searchText = <<"c", "h", "r", "2", "3", ":", "1", "1">>
  /\ result.v.start = Num(11)
  /\ calls = <<>>

C3_WitnessSubstring ==
  /\ Classified
  /\ ContainsPositionForm(searchText)
  /\ ~IsPositionForm(searchText)
  /\ branch = "gene"

(***************************************************************************)
(* C4.  A text that as a whole is (chr)?CHROM:START-END resolves to a      *)
(* range, never to a variant, with start and end the first and the second  *)
(* integer of the text in that order, and no call is ever issued for it.   *)
(***************************************************************************)
C4_RangeResolvesDirectly ==
  (Classified /\ IsRangeForm(searchText)) =>
    /\ branch = "range"
    /\ result.state = "fulfilled"
    /\ result.v.type = "range"
    /\ result.v.start.k = "num"
    /\ result.v.end.k = "num"
    /\ ToDigits(result.v.start.n) = BeforeDash(AfterColon(searchText))
    /\ ToDigits(result.v.end.n) = AfterDash(AfterColon(searchText))
    /\ calls = <<>>

\* a range whose end is below its start, and whose prefix is a position
C4_Witness ==
  /\ pc = "done"
  /\ searchText = <<"1", ":", "1", "1", "-", "1", "0">>
  /\ chromposPattern(searchText).found
  /\ result.v = Range(Str(<<"1">>), Num(11), Num(10))

(***************************************************************************)
(* C5.  As claimed: for a text with a leading "chr" that classifies as a   *)
(* position or a range, chrom in the result of parseSearchText still       *)
(* starts with "chr".  Refuted: chrom is match group 2, which never        *)
(* includes the prefix.                                                    *)
(***************************************************************************)
C5_DirectCase ==
  Resolved /\ branch \in {"variant", "range"} /\ StartsWithChr(searchText)

C5_ChromKeepsChrPrefix ==
  C5_DirectCase => StartsWithChr(result.v.chrom.s)

(***************************************************************************)
(* C5, amended.  For a text that classifies as a position or a range,      *)
(* chrom in the result of parseSearchText is the chromosome token alone,   *)
(* without the "chr" of the text; parseSearch has nothing left to remove   *)
(* and navigates with that same chrom.                                     *)
(***************************************************************************)
C5_ChromIsTokenAlone ==
  (Resolved /\ branch \in {"variant", "range"}) =>
    /\ result.v.chrom = Str(ChromToken(searchText))
    /\ ~StartsWithChr(result.v.chrom.s)
    /\ pc = "done" => (Len(location) = 1 /\ location[1].chrom = result.v.chrom.s)

C5_Witness ==
  /\ C5_DirectCase
  /\ pc = "done"
  /\ result.v.chrom = Str(<<"1">>)
  /\ location[1].chrom = <<"1">>

\* the record carries a location: a chrom string and numeric start and end
HasLocation(rec) ==
  /\ IsStr(Get(rec, "chrom"))
  /\ Get(rec, "start").k = "num"
  /\ Get(rec, "end").k = "num"

(***************************************************************************)
(* C6.  As claimed: for a text that as a whole is an rs-number exactly one *)
(* omnisearch call and no best-variant call is issued; when the answer has *)
(* a first record with chrom, start and end the result is a variant of     *)
(* those fields with the "chr" of chrom removed; when the call fails the   *)
(* result is undefined.  Refuted on the chrom: the rs branch copies it     *)
(* with its prefix.                                                        *)
(***************************************************************************)
C6_RsVariantStripped ==
  (Classified /\ IsRsForm(searchText)) =>
    /\ branch = "rs"
    /\ calls = <<OmniCall(searchText)>>
    /\ Resolved =>
         /\ result.state = "fulfilled"
         /\ (OmniHasRecord(omniResp) /\ HasLocation(FirstRecord(omniResp))) =>
              result.v = Variant(Str(StripChrPrefix(FirstRecord(omniResp).chrom.s)),
                                 FirstRecord(omniResp).start,
                                 FirstRecord(omniResp).end)
         /\ ~OmniHasRecord(omniResp) => result.v = Undefined

(***************************************************************************)
(* C6, amended.  For a text that as a whole is an rs-number exactly one    *)
(* omnisearch call and no best-variant call is issued; when the answer has *)
(* a first record with chrom, start and end the result of parseSearchText  *)
(* is a variant with exactly those fields, chrom as answered ("chr19"      *)
(* stays "chr19"), and the prefix is removed only in the location          *)
(* parseSearch navigates to; when the call fails (network error, bad       *)
(* status, malformed body, no data[0]) the result is undefined.            *)
(***************************************************************************)
C6_RsVariantAsAnswered ==
  (Classified /\ IsRsForm(searchText)) =>
    /\ branch = "rs"
    /\ calls = <<OmniCall(searchText)>>
    /\ Resolved =>
         /\ result.state = "fulfilled"
         /\ (OmniHasRecord(omniResp) /\ HasLocation(FirstRecord(omniResp))) =>
              /\ result.v = Variant(FirstRecord(omniResp).chrom,
                                    FirstRecord(omniResp).start,
                                    FirstRecord(omniResp).end)
              /\ pc = "done" =>
                   /\ Len(location) = 1
                   /\ location[1].chrom = StripChrPrefix(FirstRecord(omniResp).chrom.s)
         /\ ~OmniHasRecord(omniResp) => result.v = Undefined

C6_Witness ==
  /\ pc = "done"
  /\ IsRsForm(searchText)
  /\ result.v = Variant(Str(chr19), Num(44), Num(44))
  /\ location[1].chrom = <<"1", "9">>

C6_WitnessFailure ==
  /\ Resolved
  /\ IsRsForm(searchText)
  /\ omniResp = Http(FALSE, BadJson)
  /\ result.v = Undefined

(***************************************************************************)
(* C7.  Gene branch, omnisearch answering with a gene_id: the best-variant *)
(* call is issued only once the omnisearch answer is there, and for        *)
(* exactly that gene_id; when it answers with pos and chrom the result is  *)
(* a variant with the "chr" prefix of chrom removed and start = end = the  *)
(* integer value of pos; when it fails the result is undefined and a log   *)
(* line naming the gene id has been written.                               *)
(***************************************************************************)
C7_GeneCase ==
  /\ branch = "gene"
  /\ OmniHasRecord(omniResp)
  /\ IsStr(Get(FirstRecord(omniResp), "gene_id"))

\* the record carries a chrom string and a pos that is a number or digits
C7_HasPosChrom(rec) ==
  /\ IsStr(Get(rec, "chrom"))
  /\ \/ Get(rec, "pos").k = "num"
     \/ /\ IsStr(Get(rec, "pos"))
        /\ rec.pos.s # <<>>
        /\ \A i \in 1..Len(rec.pos.s) : rec.pos.s[i] \in Digit

C7_PosValue(pos) == IF pos.k = "num" THEN pos.n ELSE DigitsValue(pos.s)

C7_GeneResolvesThroughBestVar ==
  /\ (branch = "gene" /\ pc = "omni") => (omniResp = NoResp /\ BestVarCalls = {})
  /\ BestVarCalls # {} => omniResp # NoResp
  /\ C7_GeneCase =>
       /\ calls = <<OmniCall(searchText),
                    [api |-> "bestvar", symbol |-> FirstRecord(omniResp).gene_id.s]>>
       /\ Resolved =>
            /\ result.state = "fulfilled"
            /\ (BestVarHasData(bestResp) /\ C7_HasPosChrom(DataRecord(bestResp))) =>
                 result.v =
                   Variant(Str(StripChrPrefix(DataRecord(bestResp).chrom.s)),
                           Num(C7_PosValue(DataRecord(bestResp).pos)),
                           Num(C7_PosValue(DataRecord(bestResp).pos)))
            /\ ~BestVarHasData(bestResp) =>
                 /\ result.v = Undefined
                 /\ \E i \in 1..Len(logs) :
                      logs[i] = [text |-> "Unable to the best variant for the gene ",
                                 gene |-> FirstRecord(omniResp).gene_id.s]

C7_Witness ==
  /\ C7_GeneCase
  /\ pc = "resolved"
  /\ bestResp = Http(TRUE, Json([k |-> "obj", data |->
                  [k |-> "obj", pos |-> Str(<<"0", "4", "4">>), chrom |-> Str(chr19)]]))
  /\ result.v = Variant(Str(<<"1", "9">>), Num(44), Num(44))

C7_WitnessFailure ==
  /\ C7_GeneCase
  /\ pc = "resolved"
  /\ bestResp = Http(FALSE, BadJson)
  /\ result.v = Undefined

(***************************************************************************)
(* C8.  Every query that ends unresolved has written exactly one log line  *)
(* when parseSearchText settles, and issued no call after the failure (no  *)
(* best-variant call when the omnisearch record has no gene_id).  Refuted  *)
(* by the code: see C1 for the call, and a failed omnisearch is logged     *)
(* twice.                                                                  *)
(***************************************************************************)
C8_OneLogPerFailure ==
  (pc = "resolved" /\ result.v = Undefined) =>
    /\ Len(logs) = 1
    /\ C1_NoGeneIdCase => BestVarCalls = {}

(***************************************************************************)
(* C9.  The promise of parseSearchText is always fulfilled, never          *)
(* rejected, and its value is undefined whenever a lookup it needed        *)
(* failed, an answer with missing fields included.  Refuted by the code on *)
(* the missing fields: the rs branch builds a variant out of whatever the  *)
(* record holds.                                                           *)
(***************************************************************************)
C9_LookupFailed ==
  \/ /\ branch = "rs"
     /\ \/ ~OmniHasRecord(omniResp)
        \/ ~HasLocation(FirstRecord(omniResp))
  \/ /\ branch = "gene"
     /\ \/ ~OmniHasRecord(omniResp)
        \/ ~IsStr(Get(FirstRecord(omniResp), "gene_id"))
        \/ ~BestVarHasData(bestResp)
        \/ ~C7_HasPosChrom(DataRecord(bestResp))

C9_FailuresAbsorbedAsUndefined ==
  Resolved =>
    /\ result.state = "fulfilled"
    /\ C9_LookupFailed => result.v = Undefined

(***************************************************************************)
(* C10.  parseSearch navigates at most once, and only after the promise of *)
(* parseSearchText has settled: for a variant to /variant/{chrom}_{start}, *)
(* for a range to the region view with chrom, start and end, chrom without *)
(* its "chr" prefix in both; for an undefined result it does not navigate, *)
(* alerts exactly once and calls failureCallback.  (Variant and range as   *)
(* in the data model: chrom is a string.)                                  *)
(***************************************************************************)
C10_NavigationFollowsResult ==
  /\ Len(location) <= 1
  /\ alerts <= 1
  /\ pc # "done" => (location = <<>> /\ alerts = 0)
  /\ pc = "done" =>
       /\ (result.v # Undefined /\ result.v.type = "variant" /\ IsStr(result.v.chrom)) =>
            /\ location = <<[path |-> "/variant/",
                             chrom |-> StripChrPrefix(result.v.chrom.s),
                             start |-> TemplateString(result.v.start)]>>
            /\ alerts = 0
       /\ (result.v # Undefined /\ result.v.type = "range" /\ IsStr(result.v.chrom)) =>
            /\ location = <<[path |-> "/region/",
                             chrom |-> StripChrPrefix(result.v.chrom.s),
                             start |-> TemplateString(result.v.start),
                             end |-> TemplateString(result.v.end)]>>
            /\ alerts = 0
       /\ result.v = Undefined =>
            /\ location = <<>>
            /\ alerts = 1
            /\ \E i \in 1..Len(logs) :
                 logs[i] = failureCallback("Omnisearch undefined or other")

C10_Witness ==
  /\ pc = "done"
  /\ branch = "rs"
  /\ result.v = Variant(Str(chr19), Num(44), Num(44))
  /\ location = <<[path |-> "/variant/", chrom |-> <<"1", "9">>,
                   start |-> <<"4", "4">>]>>

C10_WitnessRange ==
  /\ pc = "done"
  /\ branch = "range"
  /\ Len(location) = 1
  /\ location[1].path = "/region/"

C10_WitnessUnresolved ==
  /\ pc = "done"
  /\ result.v = Undefined
  /\ alerts = 1
  /\ location = <<>>

(***************************************************************************)
(* C12.  The pipeline of parseSearchText: Start, Classified, then zero to  *)
(* two lookups one after the other, then a terminal state, Resolved or     *)
(* Unresolved.  When every issued lookup settles, every invocation (a call *)
(* of parseSearchText, whose synchronous part has classified the text)     *)
(* reaches a terminal state, exactly one, and from then on its result does *)
(* not change and no further lookup is issued.  A lookup is left only by its   *)
(* answer arriving: there is no timeout and no cancellation, so an         *)
(* invocation whose lookup is never answered stays pending.                *)
(***************************************************************************)
Terminal == result # Pending
TerminalResolved == Terminal /\ result.state = "fulfilled" /\ result.v # Undefined
TerminalUnresolved == Terminal /\ result.state = "fulfilled" /\ result.v = Undefined
LookupPending == pc \in {"omni", "bestvar"}

C12_PipelineTerminates ==
  /\ Classified ~> Terminal
  /\ [](Terminal => (TerminalResolved \/ TerminalUnresolved))
  /\ [](Terminal => ~(TerminalResolved /\ TerminalUnresolved))
  /\ [][Terminal => (result' = result /\ calls' = calls)]_allVars
  /\ [](pc = "start" <=> branch = "none")
  /\ [](LookupPending => ~Terminal)
  /\ [](Terminal <=> Resolved)
  /\ [](Len(calls) <= 2)
  /\ [](Len(calls) = 2 => omniResp # NoResp)
  /\ [](Len(calls) = 0 => ~LookupPending)
  /\ [][pc = "start" => pc' \in {"omni", "resolved"}]_allVars
  /\ [][pc = "omni" => (pc' \in {"bestvar", "resolved"} /\ omniResp = NoResp
                          /\ omniResp' # NoResp)]_allVars
  /\ [][pc = "bestvar" => (pc' = "resolved" /\ bestResp = NoResp
                             /\ bestResp' # NoResp)]_allVars

\* a gene query that went through both lookups and is resolved
C12_Witness ==
  /\ branch = "gene"
  /\ Len(calls) = 2
  /\ omniResp # NoResp /\ bestResp # NoResp
  /\ TerminalResolved

\* an rs query whose only lookup failed: terminal, unresolved
C12_WitnessUnresolved ==
  /\ branch = "rs"
  /\ Len(calls) = 1
  /\ omniResp = NetError
  /\ TerminalUnresolved

(***************************************************************************)
(* Two invocations of parseSearchText in flight at once.  The event loop   *)
(* runs one handler at a time; the invocations interleave at their         *)
(* lookups.  Every variable of parseSearchText is a parameter, a const or  *)
(* a var of the function or of a handler, so each invocation has its own   *)
(* frame; the network and the console are the only things they share.      *)
(***************************************************************************)
Invocations == {1, 2}

ConcurrentInputs ==
  {<<"X", ":", "1", "0">>, <<"c", "h", "r", "1", ":", "1", "0", "-", "1", "1">>,
   <<"r", "s", "1", "0">>, <<"A", "P", "O", "E">>}

\* Mutant: the locals live in one place shared by all invocations
FrameShared(q) == 1

\* the frame that holds the locals of invocation q: one per call
Frame(q) == q

NoFrame == [branch |-> "none", gene_id |-> Undefined]

ConcInit ==
  /\ cText \in [Invocations -> ConcurrentInputs]
  /\ cPc = [q \in Invocations |-> "start"]
  /\ cFrames = [q \in Invocations |-> NoFrame]
  /\ cCalls = <<>>
  /\ cLogs = <<>>
  /\ cResult = [q \in Invocations |-> Pending]
  /\ cOmniResp = [q \in Invocations |-> NoResp]
  /\ cBestResp = [q \in Invocations |-> NoResp]
  /\ SearchOff
  /\ AnnotOff
  /\ PrepOff

\* parseSearchText(cText[q]) is called: as ParseSearchText
ConcParseSearchText(q) ==
  /\ cPc[q] = "start"
  /\ LET b == BranchOf(cText[q])
     IN /\ cFrames' = [cFrames EXCEPT ![Frame(q)].branch = b]
        /\ IF b = "variant"
           THEN /\ cResult' = [cResult EXCEPT ![q] = Settled(Fulfilled(VariantOf(cText[q])))]
                /\ cPc' = [cPc EXCEPT ![q] = "resolved"]
                /\ cCalls' = cCalls
           ELSE IF b = "range"
           THEN /\ cResult' = [cResult EXCEPT ![q] = Settled(Fulfilled(RangeOf(cText[q])))]
                /\ cPc' = [cPc EXCEPT ![q] = "resolved"]
                /\ cCalls' = cCalls
           ELSE /\ cResult' = cResult
                /\ cPc' = [cPc EXCEPT ![q] = "omni"]
                /\ cCalls' = Append(cCalls, [by |-> q, call |-> OmniCall(cText[q])])
  /\ UNCHANGED <<cText, cLogs, cOmniResp, cBestResp>>
  /\ UNCHANGED notConc

\* the omnisearch fetch of invocation q settles: as OmniSettle
ConcOmniSettle(q) ==
  /\ cPc[q] = "omni"
  /\ \E resp \in OmniResponses :
       /\ cOmniResp' = [cOmniResp EXCEPT ![q] = resp]
       /\ IF cFrames[Frame(q)].branch = "rs"
          THEN LET p == RsChain(resp)
               IN /\ cLogs' = cLogs \o p.logs
                  /\ cResult' = [cResult EXCEPT ![q] = Settled(p)]
                  /\ cPc' = [cPc EXCEPT ![q] = "resolved"]
                  /\ UNCHANGED <<cCalls, cFrames>>
          ELSE LET p0 == getOmniSearch(resp)
                   p1 == Then(p0, GeneIdThen(p0.v))
               IN IF p1.ok
                  THEN /\ cLogs' = cLogs \o p1.logs
                       /\ cFrames' = [cFrames EXCEPT ![Frame(q)].gene_id = p1.v]
                       /\ cCalls' = Append(cCalls, [by |-> q, call |-> BestVarCall(p1.v)])
                       /\ cPc' = [cPc EXCEPT ![q] = "bestvar"]
                       /\ UNCHANGED cResult
                  ELSE LET p == Catch(p1, failureCallback(p1.v))
                       IN /\ cLogs' = cLogs \o p.logs
                          /\ cResult' = [cResult EXCEPT ![q] = Settled(p)]
                          /\ cPc' = [cPc EXCEPT ![q] = "resolved"]
                          /\ UNCHANGED <<cCalls, cFrames>>
  /\ UNCHANGED <<cText, cBestResp>>
  /\ UNCHANGED notConc

\* the best-variant fetch of invocation q settles: as BestVarSettle
ConcBestVarSettle(q) ==
  /\ cPc[q] = "bestvar"
  /\ \E resp \in BestVarResponses :
       LET p == BestVarChain(resp, cFrames[Frame(q)].gene_id)
       IN /\ cBestResp' = [cBestResp EXCEPT ![q] = resp]
          /\ cLogs' = cLogs \o p.logs
          /\ cResult' = [cResult EXCEPT ![q] = Settled(p)]
          /\ cPc' = [cPc EXCEPT ![q] = "resolved"]
  /\ UNCHANGED <<cText, cFrames, cCalls, cOmniResp>>
  /\ UNCHANGED notConc

ConcNext ==
  \E q \in Invocations :
    \/ ConcParseSearchText(q)
    \/ ConcOmniSettle(q)
    \/ ConcBestVarSettle(q)

SpecConcurrent == ConcInit /\ [][ConcNext]_allVars

\* the calls invocation q issued, in order
CallsOf(q) ==
  LET mine == SelectSeq(cCalls, LAMBDA c : c.by = q)
  IN [i \in 1..Len(mine) |-> mine[i].call]

\* What an invocation running alone has issued and returned once it is past
\* its synchronous part, for the text it was given and the answers its own
\* lookups have got so far (NoResp: not answered yet).
SoloGeneId(o) == LET p0 == getOmniSearch(o) IN Then(p0, GeneIdThen(p0.v))

SoloCalls(text, o) ==
  IF BranchOf(text) \in {"variant", "range"} THEN <<>>
  ELSE IF BranchOf(text) = "gene" /\ o # NoResp /\ SoloGeneId(o).ok
  THEN <<OmniCall(text), BestVarCall(SoloGeneId(o).v)>>
  ELSE <<OmniCall(text)>>

SoloResult(text, o, b) ==
  IF BranchOf(text) = "variant" THEN Settled(Fulfilled(VariantOf(text)))
  ELSE IF BranchOf(text) = "range" THEN Settled(Fulfilled(RangeOf(text)))
  ELSE IF o = NoResp THEN Pending
  ELSE IF BranchOf(text) = "rs" THEN Settled(RsChain(o))
  ELSE IF ~SoloGeneId(o).ok
  THEN Settled(Catch(SoloGeneId(o), failureCallback(SoloGeneId(o).v)))
  ELSE IF b = NoResp THEN Pending
  ELSE Settled(BestVarChain(b, SoloGeneId(o).v))

(***************************************************************************)
(* C11.  Whatever the interleaving of two invocations at their lookups,    *)
(* each invocation has issued the calls and holds the result that it has   *)
(* when it runs alone with the same text and the same answers to its own   *)
(* lookups; in particular two invocations with the same text and the same  *)
(* answers end with identical results and identical calls.                 *)
(***************************************************************************)
C11_InvocationsIndependent ==
  /\ \A q \in Invocations :
       cPc[q] # "start" =>
         /\ cResult[q] = SoloResult(cText[q], cOmniResp[q], cBestResp[q])
         /\ CallsOf(q) = SoloCalls(cText[q], cOmniResp[q])
  /\ \A q, r \in Invocations :
       (/\ cPc[q] = "resolved" /\ cPc[r] = "resolved"
        /\ cText[q] = cText[r]
        /\ cOmniResp[q] = cOmniResp[r]
        /\ cBestResp[q] = cBestResp[r]) =>
         (cResult[q] = cResult[r] /\ CallsOf(q) = CallsOf(r))

\* two gene queries interleaved at both lookups, holding different gene ids
C11_Witness ==
  /\ cText = [q \in Invocations |-> <<"A", "P", "O", "E">>]
  /\ Len(cCalls) = 4
  /\ cCalls[1].by = 1 /\ cCalls[2].by = 2 /\ cCalls[3].by = 2 /\ cCalls[4].by = 1
  /\ cFrames[1].gene_id = Str(ENSG)
  /\ cFrames[2].gene_id = Undefined
  /\ cPc[1] = "resolved"
  /\ cPc[2] = "bestvar"
  /\ cResult[1].state = "fulfilled"
  /\ cResult[1].v # Undefined

\* the same text run twice, one after the other, with the same answers
C11_WitnessTwice ==
  /\ cText[1] = cText[2]
  /\ cPc = [q \in Invocations |-> "resolved"]
  /\ cOmniResp[1] = cOmniResp[2] /\ cOmniResp[1] # NoResp
  /\ cBestResp[1] = cBestResp[2] /\ cBestResp[1] # NoResp
  /\ cResult[1] = cResult[2]

(***************************************************************************)
(* PheGET.getURL and PheGET.annotateData.  A record is its tss_distance    *)
(* and y, the value it holds in the field named by y_field; numbers are    *)
(* integers.                                                               *)
(***************************************************************************)
\* distances from the start site, and values of the y field (-1: a negative
\* effect size)
TssDistances == 0..MaxTss
YValues == -1..MaxValue
YFields == {"log_pvalue", "beta", "pip", "tss_distance"}

Records == [tss_distance : TssDistances, y : YValues]
RecordLists == UNION {[1..n -> Records] : n \in 0..MaxRecords}

States ==
  [maximum_tss_distance : TssDistances, minimum_tss_distance : TssDistances,
   y_field : YFields]

NotReturned == [k |-> "none"]
Returned(v) == [k |-> "return", v |-> v]
Thrown(e) == [k |-> "throw", e |-> e]
ErrSortField == "Unrecognized sort field"

AnnotInit ==
  /\ aPc = "start"
  /\ state \in States
  /\ header = EmptyObj
  /\ records \in RecordLists
  /\ annotated = NotReturned
  /\ SearchOff
  /\ ConcOff
  /\ PrepOff

\* getURL(state, chain): copies the three settings into chain.header
GetURL ==
  /\ aPc = "start"
  /\ header' = [k |-> "obj",
                maximum_tss_distance |-> state.maximum_tss_distance,
                minimum_tss_distance |-> state.minimum_tss_distance,
                y_field |-> state.y_field]
  /\ aPc' = "fetched"
  /\ UNCHANGED <<state, records, annotated>>
  /\ UNCHANGED notAnnot

\* Math.abs
Abs(x) == IF x < 0 THEN -x ELSE x

RecognizedField(field) == field \in {"log_pvalue", "beta", "pip"}

\* getValue(item) for a recognized field
getValue(field, item) ==
  IF field = "log_pvalue" THEN item.y
  ELSE IF field = "beta" THEN Abs(item.y)
  ELSE item.y

\* Mutant: ascending order
CompareAscending(av, bv) == IF av = bv THEN 0 ELSE IF av < bv THEN -1 ELSE 1

\* the comparator on two values: (av === bv) ? 0 : (av < bv ? 1 : -1)
Compare(av, bv) == IF av = bv THEN 0 ELSE IF av < bv THEN 1 ELSE -1

\* the place of x in a sorted sequence of indices: behind every index the
\* comparator does not put behind x (the sort is stable)
RECURSIVE InsertAt(_, _, _, _)
InsertAt(field, recs, sorted, x) ==
  IF sorted = <<>> THEN <<x>>
  ELSE IF Compare(getValue(field, recs[sorted[Len(sorted)]]),
                  getValue(field, recs[x])) <= 0
  THEN Append(sorted, x)
  ELSE Append(InsertAt(field, recs, SubSeq(sorted, 1, Len(sorted) - 1), x),
              sorted[Len(sorted)])

\* shallow_copy.sort(...), as the sequence of the indices into recs
RECURSIVE SortedIndices(_, _, _)
SortedIndices(field, recs, n) ==
  IF n = 0 THEN <<>>
  ELSE InsertAt(field, recs, SortedIndices(field, recs, n - 1), n)

\* the index at which x stands in the sequence s
IndexOf(s, x) == CHOOSE i \in 1..Len(s) : s[i] = x

\* records.filter(...)
FilterTss(recs, hdr) ==
  SelectSeq(recs, LAMBDA record :
    /\ record.tss_distance <= hdr.maximum_tss_distance
    /\ record.tss_distance >= hdr.minimum_tss_distance)

\* annotateData(records, chain): getValue is reached, and throws for an
\* unrecognized field, only when the sort has two records to compare
annotateData(recs, hdr) ==
  LET kept == FilterTss(recs, hdr)
      field == hdr.y_field
  IN IF Len(kept) >= 2 /\ ~RecognizedField(field)
     THEN Thrown(ErrSortField)
     ELSE LET shallow_copy == SortedIndices(field, kept, Len(kept))
          IN Returned([i \in 1..Len(kept) |->
                        [tss_distance |-> kept[i].tss_distance, y |-> kept[i].y,
                         top_value_rank |-> IndexOf(shallow_copy, i)]])

AnnotateData ==
  /\ aPc = "fetched"
  /\ annotated' = annotateData(records, header)
  /\ aPc' = "done"
  /\ UNCHANGED <<state, header, records>>
  /\ UNCHANGED notAnnot

AnnotNext ==
  \/ GetURL
  \/ AnnotateData

SpecAnnotate == AnnotInit /\ [][AnnotNext]_allVars

\* the input records within the tss window, in their order, without rank
InWindow(r) ==
  /\ r.tss_distance >= state.minimum_tss_distance
  /\ r.tss_distance <= state.maximum_tss_distance

Unranked(s) == [i \in 1..Len(s) |-> [tss_distance |-> s[i].tss_distance, y |-> s[i].y]]

\* the value the claim ranks by
RankValue(r) == IF state.y_field = "beta" THEN Abs(r.y) ELSE r.y

(***************************************************************************)
(* C13.  For y_field log_pvalue, beta or pip, annotateData returns exactly *)
(* the records whose tss_distance is within [minimum_tss_distance,         *)
(* maximum_tss_distance], in their original order, with top_value_rank a   *)
(* permutation of 1..n over them such that a record of smaller rank never  *)
(* has a worse value than one of larger rank (the value is the field, its  *)
(* absolute value for beta).                                               *)
(***************************************************************************)
C13_FilteredAndRanked ==
  (aPc = "done" /\ RecognizedField(state.y_field)) =>
    /\ annotated.k = "return"
    /\ LET out == annotated.v
           n == Len(out)
       IN /\ Unranked(out) = SelectSeq(records, InWindow)
          /\ {out[i].top_value_rank : i \in 1..n} = 1..n
          /\ \A i, j \in 1..n :
               out[i].top_value_rank < out[j].top_value_rank =>
                 RankValue(out[i]) >= RankValue(out[j])

\* three records, one outside the window, beta: the larger |beta| is ranked
\* first although it stands last and is negative
C13_Witness ==
  /\ aPc = "done"
  /\ state.y_field = "beta"
  /\ Len(records) = 3
  /\ annotated.k = "return"
  /\ Len(annotated.v) = 2
  /\ annotated.v[1].y = 0 /\ annotated.v[1].top_value_rank = 2
  /\ annotated.v[2].y = -1 /\ annotated.v[2].top_value_rank = 1

(***************************************************************************)
(* category_scatter._prepareData.  A point is its label (the value in      *)
(* category_field, a one-character string), its order (the value in        *)
(* category_order_field, a number) and x (the value in xField, if any).    *)
(***************************************************************************)
Labels == {"A", "a", "1"}
Orders == 1..MaxOrder
XValues == {Undefined, Num(7)}

Points == [label : Labels, order : Orders, x : XValues]
DataLists == UNION {[1..n -> Points] : n \in 0..MaxPoints}

Layouts ==
  [category_field : {Undefined, Str("symbol")},
   category_order_field : {Undefined, Str("tss")}]

ErrCategoryField == "must specify category_field"
ErrCategories == "Unable to sort PheWAS plot categories"

PrepInit ==
  /\ pPc = "start"
  /\ layout \in Layouts
  /\ data \in DataLists
  /\ prepared = NotReturned
  /\ SearchOff
  /\ ConcOff
  /\ AnnotOff

\* the property key a value is stored under: its string
KeyOf(v) == ToString(v)

\* unique_categories[key] = value
SetKey(unique, key, value) ==
  [k \in DOMAIN unique \cup {key} |-> IF k = key THEN value ELSE unique[k]]

\* this.data.forEach of the uniqueness check, from point i on: TRUE when it
\* throws
RECURSIVE UniqueThrows(_, _, _)
UniqueThrows(d, i, unique_categories) ==
  IF i > Len(d) THEN FALSE
  ELSE LET item_cat_label == d[i].label
           item_cat_order == d[i].order
       IN IF item_cat_label \notin DOMAIN unique_categories
          THEN UniqueThrows(d, i + 1,
                 SetKey(unique_categories, KeyOf(item_cat_order), item_cat_order))
          ELSE IF \/ KeyOf(item_cat_order) \notin DOMAIN unique_categories
                  \/ unique_categories[KeyOf(item_cat_order)] # item_cat_order
          THEN TRUE
          ELSE UniqueThrows(d, i + 1, unique_categories)

\* ak.toString().toLowerCase()
toLowerCase(s) == IF s = "A" THEN "a" ELSE s

\* the code unit of a one-character string, which < compares
CodeUnit(s) == IF s = "1" THEN 49 ELSE IF s = "A" THEN 65 ELSE 97

\* av of the comparator: -a[category_order_field], or the lower-cased label
SortKey(lay, d) ==
  IF lay.category_order_field # Undefined THEN -d.order
  ELSE CodeUnit(toLowerCase(d.label))

\* (av === bv) ? 0 : (av < bv ? -1 : 1)
SortCompare(av, bv) == IF av = bv THEN 0 ELSE IF av < bv THEN -1 ELSE 1

\* this.data.sort(...): stable
RECURSIVE InsertPoint(_, _, _)
InsertPoint(lay, sorted, d) ==
  IF sorted = <<>> THEN <<d>>
  ELSE IF SortCompare(SortKey(lay, sorted[Len(sorted)]), SortKey(lay, d)) <= 0
  THEN Append(sorted, d)
  ELSE Append(InsertPoint(lay, SubSeq(sorted, 1, Len(sorted) - 1), d),
              sorted[Len(sorted)])

RECURSIVE SortData(_, _, _)
SortData(lay, d, n) ==
  IF n = 0 THEN <<>>
  ELSE InsertPoint(lay, SortData(lay, d, n - 1), d[n])

\* the values || passes over
Falsy(v) == v \in {Undefined, Null, NaN, Num(0)}

\* d[xField] = d[xField] || i, i counting from 0
FillX(sourceData) ==
  [j \in 1..Len(sourceData) |->
     [sourceData[j] EXCEPT !.x = IF Falsy(@) THEN Num(j - 1) ELSE @]]

\* _prepareData(): what it returns or throws, and this.data afterwards (the
\* sort is in place and the points are the objects of this.data)
prepareData(lay, d) ==
  IF lay.category_field = Undefined
  THEN [out |-> Thrown(ErrCategoryField), data |-> d]
  ELSE IF lay.category_order_field # Undefined /\ UniqueThrows(d, 1, <<>>)
  THEN [out |-> Thrown(ErrCategories), data |-> d]
  ELSE LET sourceData == FillX(SortData(lay, d, Len(d)))
       IN [out |-> Returned(sourceData), data |-> sourceData]

PrepareData ==
  /\ pPc = "start"
  /\ prepared' = prepareData(layout, data).out
  /\ data' = prepareData(layout, data).data
  /\ pPc' = "done"
  /\ UNCHANGED layout
  /\ UNCHANGED notPrep

PrepNext == PrepareData

SpecPrepare == PrepInit /\ [][PrepNext]_allVars

\* two points with the same category and different order values
Ambiguous(d) ==
  \E i, j \in 1..Len(d) : d[i].label = d[j].label /\ d[i].order # d[j].order

OrderConfigured ==
  layout.category_field # Undefined /\ layout.category_order_field # Undefined

(***************************************************************************)
(* C14.  With category_order_field configured, _prepareData throws         *)
(* whenever two points have the same category and different order values,  *)
(* and otherwise returns the data sorted in descending order of the order  *)
(* field with x filled in for every point.  Refuted by the code: the check *)
(* looks the category up among keys that are order values, so two points   *)
(* "A" with orders 1 and 2 pass it, and the sorted data is returned.       *)
(***************************************************************************)
C14_OneToOneEnforced ==
  (pPc = "done" /\ OrderConfigured) =>
    IF Ambiguous(data)
    THEN prepared.k = "throw"
    ELSE /\ prepared.k = "return"
         /\ prepared.v = data
         /\ \A i, j \in 1..Len(data) : i < j => data[i].order >= data[j].order
         /\ \A i \in 1..Len(data) : data[i].x # Undefined

\* two points of category "A" with order values 1 and 2 went through: no
\* throw, the data is returned sorted
C14_WitnessNoThrow ==
  /\ pPc = "done"
  /\ OrderConfigured
  /\ Len(data) = 2
  /\ data[1].label = "A" /\ data[1].order = 2
  /\ data[2].label = "A" /\ data[2].order = 1
  /\ prepared = Returned(data)

====
